---- MODULE Spec2Model ----
(***************************************************************************)
(* The pull-request review run of main.ts: main(), getPRDetails(),          *)
(* getDiff(), analyzeCode(), getAIResponse(), createComment() and          *)
(* createReviewComment(), with the platform and the language model as the  *)
(* environment.  Strings the code inspects (the exclude input, the glob    *)
(* patterns, the target paths, the lineNumber texts) are sequences of      *)
(* one-character strings, so split, trim, minimatch and Number are         *)
(* computed character by character.                                        *)
(***************************************************************************)
EXTENDS Integers, Sequences, FiniteSets, TLC

VARIABLES
    missing,        \* the inputs of lines 10-12 that core.getInput returns "" for
    exclude,        \* core.getInput("exclude"), the raw text
    eventData,      \* the GITHUB_EVENT_PATH payload
    pc,             \* where main() is
    exitCode,       \* the process's exit code once pc = "done"
    fatalAt,        \* the call whose exception reached main's catch
    prCalls,        \* octokit.pulls.get calls of getPRDetails
    diffCalls,      \* octokit.pulls.get (format diff) calls of getDiff
    compareCalls,   \* octokit.repos.compareCommits calls
    reviewCalls,    \* octokit.pulls.createReview calls
    submitted,      \* the arguments of the createReview calls, in order
    parsedDiff,     \* parseDiff(diff)
    filteredDiff,   \* parsedDiff.filter(...)
    analyzed,       \* analyzeCode was entered
    fi,             \* analyzeCode: index of the current file in filteredDiff
    ci,             \* analyzeCode: index of the current chunk in file.chunks
    inflight,       \* model requests issued and not yet answered
    requests,       \* the (file, chunk) of every model request, in order
    replies,        \* what getAIResponse returned for each request, in order
    lastRaw,        \* what the model collaborator did on the latest request
    comments        \* analyzeCode's comments array

vars == << missing, exclude, eventData, pc, exitCode, fatalAt, prCalls,
           diffCalls, compareCalls, reviewCalls, submitted, parsedDiff,
           filteredDiff, analyzed, fi, ci, inflight, requests, replies,
           lastRaw, comments >>

-----------------------------------------------------------------------------
(* Bounds of the exploration *)

\* the most files of a diff the platform returns
MaxFiles == 2

\* the most chunks, over all its files, of such a diff
MaxChunks == 3

-----------------------------------------------------------------------------
(* Strings *)

IsSpace(ch) == ch = " "

RECURSIVE TrimLeft(_)
TrimLeft(s) ==
    IF s # <<>> /\ IsSpace(Head(s)) THEN TrimLeft(Tail(s)) ELSE s

RECURSIVE TrimRight(_)
TrimRight(s) ==
    IF s # <<>> /\ IsSpace(s[Len(s)]) THEN TrimRight(SubSeq(s, 1, Len(s) - 1)) ELSE s

\* String.prototype.trim
Trim(s) == TrimRight(TrimLeft(s))

\* String.prototype.split(","): a sequence of strings, never empty
RECURSIVE SplitComma(_, _)
SplitComma(s, cur) ==
    IF s = <<>> THEN << cur >>
    ELSE IF Head(s) = "," THEN << cur >> \o SplitComma(Tail(s), <<>>)
    ELSE SplitComma(Tail(s), Append(cur, Head(s)))

\* A pattern of literals and "*" against a text, "*" matching any run of
\* characters other than "/"
RECURSIVE GlobMatch(_, _)
GlobMatch(pat, s) ==
    IF pat = <<>> THEN s = <<>>
    ELSE IF Head(pat) = "*"
    THEN \/ GlobMatch(Tail(pat), s)
         \/ s # <<>> /\ Head(s) # "/" /\ GlobMatch(pat, Tail(s))
    ELSE s # <<>> /\ Head(s) = Head(pat) /\ GlobMatch(Tail(pat), Tail(s))

\* minimatch(p, pattern) with no options: a comment pattern matches nothing,
\* the empty pattern matches the empty text only
Minimatch(p, pattern) ==
    IF pattern # <<>> /\ Head(pattern) = "#" THEN FALSE
    ELSE IF Trim(pattern) = <<>> THEN p = <<>>
    ELSE GlobMatch(pattern, p)

-----------------------------------------------------------------------------
(* Number(text): the StringToNumber conversion, for texts of spaces, signs, *)
(* digits, "." and letters.  A number is mant / 10^frac, or NaN.            *)

NaN == [nan |-> TRUE, mant |-> 0, frac |-> 0]

Digits == <<"0", "1", "2", "3", "4", "5", "6", "7", "8", "9">>

IsDigit(ch) == \E i \in 1..Len(Digits) : Digits[i] = ch

DigitValue(ch) == (CHOOSE i \in 1..Len(Digits) : Digits[i] = ch) - 1

AllDigits(s) == \A i \in 1..Len(s) : IsDigit(s[i])

RECURSIVE DigitsValue(_, _)
DigitsValue(s, acc) ==
    IF s = <<>> THEN acc ELSE DigitsValue(Tail(s), acc * 10 + DigitValue(Head(s)))

\* 2.50 is 2.5 and 2.0 is 2
RECURSIVE Normalize(_, _)
Normalize(m, f) ==
    IF f > 0 /\ m % 10 = 0 THEN Normalize(m \div 10, f - 1)
    ELSE [nan |-> FALSE, mant |-> m, frac |-> f]

\* StrUnsignedDecimalLiteral: digits, digits "." digits, "." digits
UnsignedDecimal(u, sign) ==
    LET dots == { i \in 1..Len(u) : u[i] = "." } IN
    IF dots = {}
    THEN IF u # <<>> /\ AllDigits(u) THEN Normalize(sign * DigitsValue(u, 0), 0) ELSE NaN
    ELSE IF Cardinality(dots) > 1 THEN NaN
    ELSE LET d  == CHOOSE i \in dots : TRUE
             ip == SubSeq(u, 1, d - 1)
             fp == SubSeq(u, d + 1, Len(u))
         IN  IF AllDigits(ip) /\ AllDigits(fp) /\ Len(ip) + Len(fp) > 0
             THEN Normalize(sign * DigitsValue(ip \o fp, 0), Len(fp))
             ELSE NaN

ToNumber(text) ==
    LET t == Trim(text) IN
    IF t = <<>> THEN Normalize(0, 0)
    ELSE IF Head(t) = "-" THEN UnsignedDecimal(Tail(t), -1)
    ELSE IF Head(t) = "+" THEN UnsignedDecimal(Tail(t), 1)
    ELSE UnsignedDecimal(t, 1)

-----------------------------------------------------------------------------
(* The inputs of a run *)

Inputs == {"GITHUB_TOKEN", "OPENAI_API_KEY", "OPENAI_API_MODEL"}

Actions == {"opened", "synchronize", "closed"}

\* wellFormed: the payload parses and holds repository.owner.login,
\* repository.name and number
Events == [action : Actions, wellFormed : BOOLEAN]

\* "", "*.md" and "*.ts, *.md"
ExcludeInputs ==
    { <<>>,
      <<"*", ".", "m", "d">>,
      <<"*", ".", "t", "s", ",", " ", "*", ".", "m", "d">> }

DevNull == <<"/", "d", "e", "v", "/", "n", "u", "l", "l">>

\* file.to: "a.ts", "README.md", "/dev/null", or undefined
Targets ==
    { [hasTo |-> TRUE, to |-> <<"a", ".", "t", "s">>],
      [hasTo |-> TRUE, to |-> <<"R", "E", "A", "D", "M", "E", ".", "m", "d">>],
      [hasTo |-> TRUE, to |-> DevNull],
      [hasTo |-> FALSE, to |-> <<>>] }

FileShapes == [target : Targets, chunks : 0..MaxChunks]

RECURSIVE TotalChunks(_)
TotalChunks(files) ==
    IF files = <<>> THEN 0 ELSE Head(files).chunks + TotalChunks(Tail(files))

\* parseDiff's File[]: id is the entry's place in the diff, chunks the length
\* of its chunks array
ParsedDiffs ==
    UNION { { [i \in 1..n |-> [id |-> i, hasTo |-> d[i].target.hasTo,
                               to |-> d[i].target.to, chunks |-> d[i].chunks]] :
              d \in { e \in [1..n -> FileShapes] : TotalChunks(e) <= MaxChunks } } :
            n \in 0..MaxFiles }

\* what the diff fetch resolves to: the empty text, or a text parseDiff
\* turns into files
DiffTexts == { [empty |-> TRUE, files |-> <<>>] }
             \cup { [empty |-> FALSE, files |-> d] : d \in ParsedDiffs }

\* The findings the model reports on chunk c of file id: the reviewComment
\* names the chunk and the finding
Finding(text, id, c, n) ==
    [lineNumber |-> text, reviewComment |-> << id, c, n >>]

ReviewLists(id, c) ==
    { <<>>,
      << Finding(<<"2">>, id, c, 1), Finding(<<"-", "3">>, id, c, 2) >> }

\* What one call of openai.beta.chat.completions.parse does: rejects (a
\* transport error or timeout; a reply that is not JSON of the schema),
\* resolves with no parsed result (a refusal), or resolves with
\* parsed = {reviews}.  The service rejects a request that carries no API
\* key or no model name.
RawOutcomes(id, c, unset) ==
    IF unset \cap {"OPENAI_API_KEY", "OPENAI_API_MODEL"} # {}
    THEN { [kind |-> "error", reviews |-> <<>>] }
    ELSE { [kind |-> k, reviews |-> <<>>] : k \in {"error", "invalid", "refusal"} }
         \cup { [kind |-> "ok", reviews |-> r] : r \in ReviewLists(id, c) }

NoRaw == [kind |-> "none", reviews |-> <<>>]

\* null, as against an array
Null == [isNull |-> TRUE, reviews |-> <<>>]

Arr(r) == [isNull |-> FALSE, reviews |-> r]

-----------------------------------------------------------------------------
(* The functions of main.ts *)

\* file.to ?? ""
ToOrEmpty(file) == IF file.hasTo THEN file.to ELSE <<>>

\* !file.to
NoTo(file) == ~file.hasTo \/ file.to = <<>>

\* IsDeleted without the check of line 68
IsDeletedNever(file) == FALSE

\* file.to === "/dev/null"
IsDeleted(file) == file.hasTo /\ file.to = DevNull

\* core.getInput("exclude").split(",").map((s) => s.trim())
ExcludePatterns(raw) ==
    LET parts == SplitComma(raw, <<>>) IN
    [i \in 1..Len(parts) |-> Trim(parts[i])]

\* the filter callback's result
Included(file, patterns) ==
    ~ \E i \in 1..Len(patterns) : Minimatch(ToOrEmpty(file), patterns[i])

FilterDiff(files, patterns) ==
    LET Keep(file) == Included(file, patterns) IN SelectSeq(files, Keep)

\* EventKind with every other action treated as "opened"
EventKindElsePull(action) ==
    IF action = "synchronize" THEN "compare" ELSE "pull"

\* the branches of main on eventData.action
EventKind(action) ==
    IF action = "opened" THEN "pull"
    ELSE IF action = "synchronize" THEN "compare"
    ELSE "unsupported"

\* the await of the parse call rejects
Rejects(raw) == raw.kind \in {"error", "invalid"}

\* response.choices[0].message?.parsed?.reviews, undefined read as null
ParsedReviews(raw) == IF raw.kind = "ok" THEN Arr(raw.reviews) ELSE Null

\* an array is truthy, the empty one too
Truthy(v) == ~v.isNull

\* OrNull with the empty array taken for falsy
OrNullEmptyToo(v) == IF Truthy(v) /\ v.reviews # <<>> THEN v ELSE Null

\* v || null
OrNull(v) == IF Truthy(v) THEN v ELSE Null

\* GetAIResponse without its catch
GetAIResponseUncaught(raw) ==
    IF Rejects(raw) THEN [thrown |-> TRUE, value |-> Null]
    ELSE [thrown |-> FALSE, value |-> OrNull(ParsedReviews(raw))]

\* getAIResponse: thrown says whether an exception leaves the function
GetAIResponse(raw) ==
    IF Rejects(raw) THEN [thrown |-> FALSE, value |-> Null]
    ELSE [thrown |-> FALSE, value |-> OrNull(ParsedReviews(raw))]

\* createComment mapping the first finding only
createCommentFirstOnly(file, aiResponses) ==
    IF NoTo(file) \/ aiResponses = <<>> THEN <<>>
    ELSE << [body |-> aiResponses[1].reviewComment,
             path |-> file.to,
             line |-> ToNumber(aiResponses[1].lineNumber)] >>

createComment(file, aiResponses) ==
    IF NoTo(file) THEN <<>>
    ELSE [i \in 1..Len(aiResponses) |->
            [body |-> aiResponses[i].reviewComment,
             path |-> file.to,
             line |-> ToNumber(aiResponses[i].lineNumber)]]

\* NextChunk stopping one chunk short of each file's last
RECURSIVE NextChunkOffByOne(_, _, _)
NextChunkOffByOne(files, f, c) ==
    IF f > Len(files) THEN << f, 1 >>
    ELSE IF IsDeleted(files[f]) \/ c >= files[f].chunks
    THEN NextChunkOffByOne(files, f + 1, 1)
    ELSE << f, c >>

\* the two for loops of analyzeCode: the next (file, chunk) to review from
\* (f, c) on, or f past the last file
RECURSIVE NextChunk(_, _, _)
NextChunk(files, f, c) ==
    IF f > Len(files) THEN << f, 1 >>
    ELSE IF IsDeleted(files[f]) \/ c > files[f].chunks THEN NextChunk(files, f + 1, 1)
    ELSE << f, c >>

createPrompt(file, c) == [file |-> file.id, to |-> ToOrEmpty(file), chunk |-> c]

\* ShouldSubmit without the check of line 285
ShouldSubmitAlways(cs) == TRUE

\* comments.length > 0
ShouldSubmit(cs) == Len(cs) > 0

-----------------------------------------------------------------------------
(* The run *)

Init ==
    /\ missing \in SUBSET Inputs
    /\ exclude \in ExcludeInputs
    /\ eventData \in Events
    /\ pc = "start"
    /\ exitCode = -1
    /\ fatalAt = "none"
    /\ prCalls = 0
    /\ diffCalls = 0
    /\ compareCalls = 0
    /\ reviewCalls = 0
    /\ submitted = <<>>
    /\ parsedDiff = <<>>
    /\ filteredDiff = <<>>
    /\ analyzed = FALSE
    /\ fi = 1
    /\ ci = 1
    /\ inflight = 0
    /\ requests = <<>>
    /\ replies = <<>>
    /\ lastRaw = NoRaw
    /\ comments = <<>>

\* main's catch: process.exit(1)
Fatal(where) ==
    /\ pc' = "done"
    /\ exitCode' = 1
    /\ fatalAt' = where

\* main returns
Return ==
    /\ pc' = "done"
    /\ exitCode' = 0
    /\ fatalAt' = fatalAt

\* getPRDetails: reads the payload, then fetches the pull request
GetPRDetails ==
    /\ pc = "start"
    /\ IF ~eventData.wellFormed
       THEN /\ Fatal("getPRDetails")
            /\ prCalls' = prCalls
       ELSE /\ prCalls' = prCalls + 1
            /\ \E ok \in BOOLEAN :
                 IF ok THEN /\ pc' = "event"
                            /\ UNCHANGED << exitCode, fatalAt >>
                 ELSE Fatal("getPRDetails")
    /\ UNCHANGED << missing, exclude, eventData, diffCalls, compareCalls,
                    reviewCalls, submitted, parsedDiff, filteredDiff, analyzed,
                    fi, ci, inflight, requests, replies, lastRaw, comments >>

\* main from "if (!diff)" to the call of analyzeCode, and analyzeCode up to
\* its first chunk
TakeDiff(diff) ==
    IF diff.empty
    THEN /\ Return
         /\ UNCHANGED << parsedDiff, filteredDiff, analyzed, fi, ci >>
    ELSE LET kept == FilterDiff(diff.files, ExcludePatterns(exclude))
             pos  == NextChunk(kept, 1, 1)
         IN  /\ parsedDiff' = diff.files
             /\ filteredDiff' = kept
             /\ analyzed' = TRUE
             /\ fi' = pos[1]
             /\ ci' = pos[2]
             /\ pc' = "analyze"
             /\ UNCHANGED << exitCode, fatalAt >>

\* action "opened": getDiff
FetchPullDiff ==
    /\ pc = "event"
    /\ EventKind(eventData.action) = "pull"
    /\ diffCalls' = diffCalls + 1
    /\ \/ /\ Fatal("getDiff")
          /\ UNCHANGED << parsedDiff, filteredDiff, analyzed, fi, ci >>
       \/ \E diff \in DiffTexts : TakeDiff(diff)
    /\ UNCHANGED << missing, exclude, eventData, prCalls, compareCalls,
                    reviewCalls, submitted, inflight, requests, replies,
                    lastRaw, comments >>

\* action "synchronize": octokit.repos.compareCommits
FetchCompareDiff ==
    /\ pc = "event"
    /\ EventKind(eventData.action) = "compare"
    /\ compareCalls' = compareCalls + 1
    /\ \/ /\ Fatal("compareCommits")
          /\ UNCHANGED << parsedDiff, filteredDiff, analyzed, fi, ci >>
       \/ \E diff \in DiffTexts : TakeDiff(diff)
    /\ UNCHANGED << missing, exclude, eventData, prCalls, diffCalls,
                    reviewCalls, submitted, inflight, requests, replies,
                    lastRaw, comments >>

\* any other action: "Unsupported event", return
UnsupportedEvent ==
    /\ pc = "event"
    /\ EventKind(eventData.action) = "unsupported"
    /\ Return
    /\ UNCHANGED << missing, exclude, eventData, prCalls, diffCalls,
                    compareCalls, reviewCalls, submitted, parsedDiff,
                    filteredDiff, analyzed, fi, ci, inflight, requests,
                    replies, lastRaw, comments >>

\* analyzeCode: createPrompt and the call of getAIResponse, up to its await
RequestModel ==
    /\ pc = "analyze"
    /\ fi <= Len(filteredDiff)
    /\ requests' = Append(requests, createPrompt(filteredDiff[fi], ci))
    /\ inflight' = inflight + 1
    /\ lastRaw' = NoRaw
    /\ pc' = "model"
    /\ UNCHANGED << missing, exclude, eventData, exitCode, fatalAt, prCalls,
                    diffCalls, compareCalls, reviewCalls, submitted,
                    parsedDiff, filteredDiff, analyzed, fi, ci, replies,
                    comments >>

\* the model call settles: the rest of getAIResponse, createComment, the
\* push, and the loops' step to the next chunk
ModelReply ==
    /\ pc = "model"
    /\ \E raw \in RawOutcomes(filteredDiff[fi].id, ci, missing) :
         LET r   == GetAIResponse(raw)
             pos == NextChunk(filteredDiff, fi, ci + 1)
         IN  /\ lastRaw' = raw
             /\ inflight' = inflight - 1
             /\ IF r.thrown
                THEN /\ Fatal("getAIResponse")
                     /\ UNCHANGED << replies, comments, fi, ci >>
                ELSE /\ replies' = Append(replies, r.value)
                     /\ comments' =
                          IF Truthy(r.value)
                          THEN comments \o createComment(filteredDiff[fi], r.value.reviews)
                          ELSE comments
                     /\ fi' = pos[1]
                     /\ ci' = pos[2]
                     /\ pc' = "analyze"
                     /\ UNCHANGED << exitCode, fatalAt >>
    /\ UNCHANGED << missing, exclude, eventData, prCalls, diffCalls,
                    compareCalls, reviewCalls, submitted, parsedDiff,
                    filteredDiff, analyzed, requests >>

\* analyzeCode returned a non-empty list: createReviewComment
CreateReview ==
    /\ pc = "analyze"
    /\ fi > Len(filteredDiff)
    /\ ShouldSubmit(comments)
    /\ reviewCalls' = reviewCalls + 1
    /\ submitted' = Append(submitted, [comments |-> comments, event |-> "COMMENT"])
    /\ \/ Return
       \/ Fatal("createReview")
    /\ UNCHANGED << missing, exclude, eventData, prCalls, diffCalls,
                    compareCalls, parsedDiff, filteredDiff, analyzed, fi, ci,
                    inflight, requests, replies, lastRaw, comments >>

\* analyzeCode returned the empty list: "No comments to create"
NoComments ==
    /\ pc = "analyze"
    /\ fi > Len(filteredDiff)
    /\ ~ShouldSubmit(comments)
    /\ Return
    /\ UNCHANGED << missing, exclude, eventData, prCalls, diffCalls,
                    compareCalls, reviewCalls, submitted, parsedDiff,
                    filteredDiff, analyzed, fi, ci, inflight, requests,
                    replies, lastRaw, comments >>

Next ==
    \/ GetPRDetails
    \/ FetchPullDiff
    \/ FetchCompareDiff
    \/ UnsupportedEvent
    \/ RequestModel
    \/ ModelReply
    \/ CreateReview
    \/ NoComments

Spec == Init /\ [][Next]_vars

-----------------------------------------------------------------------------
(* Vocabulary of the properties *)

Done == pc = "done"

\* analyzeCode has returned its list to main
AnalysisReturned ==
    analyzed /\ pc \in {"analyze", "done"} /\ fi > Len(filteredDiff) /\ inflight = 0

\* how many model requests were made for chunk c of the diff's file id
ReqCount(id, c) ==
    Cardinality({ i \in 1..Len(requests) :
                    requests[i].file = id /\ requests[i].chunk = c })

\* file order, then chunk order
Before(a, b) == a.file < b.file \/ (a.file = b.file /\ a.chunk < b.chunk)

\* the filter kept the diff's file id
Kept(id) == \E j \in 1..Len(filteredDiff) : filteredDiff[j].id = id

Unsupported == eventData.action \notin {"opened", "synchronize"}

NoDiffFetch == diffCalls = 0 /\ compareCalls = 0

-----------------------------------------------------------------------------
(* C1: the review-creation call is issued at most once; once analyzeCode    *)
(* has returned and the run has ended, it was issued exactly once, with all *)
(* the comments and the event "COMMENT", if the list is non-empty, and not  *)
(* at all if the list is empty.                                             *)
C1_ReviewOnce ==
    /\ reviewCalls <= 1
    /\ Len(submitted) = reviewCalls
    /\ ~AnalysisReturned => reviewCalls = 0
    /\ (Done /\ AnalysisReturned) =>
         IF comments # <<>>
         THEN /\ reviewCalls = 1
              /\ submitted = << [comments |-> comments, event |-> "COMMENT"] >>
         ELSE reviewCalls = 0

C1_Witness ==
    /\ Done
    /\ Len(comments) >= 2
    /\ reviewCalls = 1
    /\ submitted[1].comments = comments

-----------------------------------------------------------------------------
(* C2: a model call that throws never leaves getAIResponse as an exception; *)
(* its chunk adds no comment; analyzeCode still requests every chunk of     *)
(* every reviewed file; and the run ends with exit code 0 unless another    *)
(* stage (getPRDetails, the diff fetch, createReview) failed.               *)
C2_ModelFailureContained ==
    /\ fatalAt # "getAIResponse"
    /\ (lastRaw.kind \in {"error", "invalid"}) =>
         /\ Len(replies) = Len(requests)
         /\ replies[Len(replies)].isNull
    /\ \A i \in 1..Len(replies) :
         replies[i].isNull =>
           \A k \in 1..Len(comments) :
             << comments[k].body[1], comments[k].body[2] >>
               # << requests[i].file, requests[i].chunk >>
    /\ (Done /\ analyzed) =>
         \A j \in 1..Len(filteredDiff) :
           ~(filteredDiff[j].hasTo /\ filteredDiff[j].to = DevNull) =>
             \A c \in 1..filteredDiff[j].chunks : ReqCount(filteredDiff[j].id, c) = 1
    /\ Done =>
         \/ exitCode = 0
         \/ fatalAt \in {"getPRDetails", "getDiff", "compareCommits", "createReview"}

C2_Witness ==
    /\ Done
    /\ exitCode = 0
    /\ lastRaw.kind = "error"
    /\ Len(requests) >= 2
    /\ replies[Len(replies)].isNull
    /\ comments # <<>>
    /\ reviewCalls = 1

-----------------------------------------------------------------------------
(* C3: getAIResponse returns the empty sequence, not null, for a reply of   *)
(* the schema whose reviews list is empty, and the reviews as they are for  *)
(* any reply of the schema; it returns null for a reply with no parsed      *)
(* result or not of the schema; it raises nothing to its caller.            *)
C3_EmptyIsNotNull ==
    lastRaw.kind \in {"ok", "refusal", "invalid"} =>
      /\ fatalAt # "getAIResponse"
      /\ Len(replies) = Len(requests)
      /\ LET v == replies[Len(replies)] IN
           /\ lastRaw.kind = "ok" => ~v.isNull /\ v.reviews = lastRaw.reviews
           /\ lastRaw.kind \in {"refusal", "invalid"} => v.isNull

C3_Witness ==
    /\ lastRaw.kind = "ok"
    /\ lastRaw.reviews = <<>>
    /\ Len(replies) >= 1
    /\ ~replies[Len(replies)].isNull
    /\ replies[Len(replies)].reviews = <<>>

-----------------------------------------------------------------------------
\* the file has a target path that one of the configured patterns matches
MatchesAPattern(file) ==
    /\ file.hasTo
    /\ \E i \in 1..Len(ExcludePatterns(exclude)) :
         Minimatch(file.to, ExcludePatterns(exclude)[i])

ExcludedOrDeleted(file) ==
    MatchesAPattern(file) \/ (file.hasTo /\ file.to = DevNull)

(* C4: for a file of the parsed diff whose target path matches an exclusion *)
(* pattern, or is "/dev/null", no prompt is built and no model request is   *)
(* made; when every file is such a file there is no model request and no    *)
(* review.                                                                  *)
C4_ExcludedNeverReviewed ==
    /\ \A f \in 1..Len(parsedDiff) :
         ExcludedOrDeleted(parsedDiff[f]) =>
           \A i \in 1..Len(requests) : requests[i].file # f
    /\ (analyzed /\ \A f \in 1..Len(parsedDiff) : ExcludedOrDeleted(parsedDiff[f])) =>
         /\ requests = <<>>
         /\ inflight = 0
         /\ reviewCalls = 0

C4_Witness ==
    /\ Done
    /\ Len(requests) >= 1
    /\ \E f \in 1..Len(parsedDiff) :
         /\ MatchesAPattern(parsedDiff[f])
         /\ parsedDiff[f].chunks >= 1
         /\ parsedDiff[f].to # DevNull

-----------------------------------------------------------------------------
(* C5 as stated: with a payload whose action is neither "opened" nor        *)
(* "synchronize" no diff is fetched, no model request and no review is      *)
(* made, and the run ends with exit code 0.                                 *)
C5_Original ==
    (Unsupported /\ eventData.wellFormed) =>
      /\ NoDiffFetch
      /\ requests = <<>>
      /\ reviewCalls = 0
      /\ Done => exitCode = 0

(* C5 amended: with such an action no diff is fetched and no model request  *)
(* or review is made, and the run ends with exit code 0 unless getPRDetails *)
(* (the payload read and the pull-request fetch, which come before the      *)
(* action is looked at) throws, and then with exit code 1.                  *)
C5_UnsupportedIsNoOp ==
    Unsupported =>
      /\ NoDiffFetch
      /\ requests = <<>>
      /\ reviewCalls = 0
      /\ ~analyzed
      /\ Done => /\ fatalAt \in {"none", "getPRDetails"}
                 /\ exitCode = IF fatalAt = "none" THEN 0 ELSE 1

C5_Witness ==
    /\ Unsupported
    /\ Done
    /\ prCalls = 1
    /\ exitCode = 0

-----------------------------------------------------------------------------
(* C6 as stated: with the platform credential, the model credential or the  *)
(* model identifier missing, no network call is ever made and the run ends  *)
(* with a non-zero exit code.                                               *)
C6_Original ==
    missing # {} =>
      /\ prCalls = 0
      /\ NoDiffFetch
      /\ requests = <<>>
      /\ reviewCalls = 0
      /\ Done => exitCode # 0

-----------------------------------------------------------------------------
(* C7 as stated: with the empty exclude input every file of the parsed diff *)
(* is kept by the filter, one with no target path too.                      *)
C7_Original ==
    (analyzed /\ exclude = <<>>) => filteredDiff = parsedDiff

-----------------------------------------------------------------------------
NonNegativeInteger(n) == ~n.nan /\ n.frac = 0 /\ n.mant >= 0

(* C8 as stated: every comment record, in analyzeCode's list and in the     *)
(* submitted review, has a line that is a non-negative integer.             *)
C8_Original ==
    /\ \A k \in 1..Len(comments) : NonNegativeInteger(comments[k].line)
    /\ \A r \in 1..Len(submitted) :
         \A k \in 1..Len(submitted[r].comments) :
           NonNegativeInteger(submitted[r].comments[k].line)

-----------------------------------------------------------------------------
(* C9 and C10: what the findings of the answered requests should give.      *)

\* the diff's file a request was made for
FileOf(i) == parsedDiff[requests[i].file]

\* one (path, body) per finding of answered request i
RecordsOf(i) ==
    [n \in 1..Len(replies[i].reviews) |->
       [path |-> FileOf(i).to, body |-> replies[i].reviews[n].reviewComment]]

\* the concatenation over the answered requests from i on, in request order,
\* a file with no target path counted or not
RECURSIVE Expected(_, _)
Expected(i, pathless) ==
    IF i > Len(replies) THEN <<>>
    ELSE (IF replies[i].isNull \/ (~pathless /\ ~FileOf(i).hasTo)
          THEN <<>> ELSE RecordsOf(i))
         \o Expected(i + 1, pathless)

PathAndBody(cs) == [k \in 1..Len(cs) |-> [path |-> cs[k].path, body |-> cs[k].body]]

\* the requests were made in file order, then chunk order
RequestsInOrder ==
    \A i \in 1..Len(requests) : \A j \in 1..Len(requests) :
      i < j => Before(requests[i], requests[j])

\* no comment belongs to a file with no target path
NoneForPathless ==
    \A k \in 1..Len(comments) :
      LET id == comments[k].body[1] IN
        /\ id \in 1..Len(parsedDiff)
        /\ parsedDiff[id].hasTo
        /\ parsedDiff[id].to = comments[k].path

(* C9 as stated: the comments are one record per finding of every chunk     *)
(* whose model call returned a non-null result, in file, chunk and finding  *)
(* order, with the file's path and the finding's text, and none is made for *)
(* a file with no target path.                                              *)
C9_Original ==
    /\ RequestsInOrder
    /\ PathAndBody(comments) = Expected(1, TRUE)
    /\ NoneForPathless

(* C9 amended: the comments are one record per finding of every chunk, of a *)
(* file that has a target path, whose model call returned a non-null        *)
(* result, in file, chunk and finding order, with the file's path and the   *)
(* finding's text; the findings of a file with no target path give no       *)
(* record; the submitted review carries that list.                          *)
C9_CommentsAreTheFindings ==
    /\ RequestsInOrder
    /\ PathAndBody(comments) = Expected(1, FALSE)
    /\ NoneForPathless
    /\ \A r \in 1..Len(submitted) : submitted[r].comments = comments

C9_Witness ==
    /\ Done
    /\ reviewCalls = 1
    /\ Len(comments) >= 4
    /\ \E i \in 1..Len(replies) :
         ~replies[i].isNull /\ replies[i].reviews # <<>> /\ ~FileOf(i).hasTo

-----------------------------------------------------------------------------
(* C10: at most one model request is in flight; a request is made only when *)
(* every earlier one has been answered, and in file then chunk order; no    *)
(* chunk is requested twice; and when the run ends after analyzeCode, each  *)
(* chunk of a file the filter kept and that is not deleted was requested    *)
(* exactly once, and no other chunk at all.                                 *)
C10_OneRequestPerChunk ==
    /\ inflight \in {0, 1}
    /\ fatalAt = "none" => Len(requests) = Len(replies) + inflight
    /\ RequestsInOrder
    /\ \A f \in 1..Len(parsedDiff) : \A c \in 1..parsedDiff[f].chunks :
         ReqCount(f, c) <= 1
    /\ \A i \in 1..Len(requests) :
         /\ requests[i].file \in 1..Len(parsedDiff)
         /\ requests[i].chunk \in 1..FileOf(i).chunks
    /\ (Done /\ analyzed) =>
         \A f \in 1..Len(parsedDiff) : \A c \in 1..parsedDiff[f].chunks :
           ReqCount(f, c) =
             IF Kept(f) /\ ~(parsedDiff[f].hasTo /\ parsedDiff[f].to = DevNull)
             THEN 1 ELSE 0

C10_Witness ==
    /\ Done
    /\ Len(parsedDiff) = 2
    /\ Len(requests) = 3
    /\ requests[3].file = 2
    /\ replies[1].isNull
    /\ ~replies[2].isNull

====
